---- MODULE Spec2Model ----
(***************************************************************************)
(* Ants-and-bees tower defence: the simulation engine of src/src/game.ts   *)
(* (Place, Hive, AntColony, AntGame) as a state machine.  The insect       *)
(* classes of ./ants (Ant and its variants, Bee) are imported by game.ts   *)
(* but their file is not part of the sources at hand; the few facts the    *)
(* engine relies on are modelled from the written specification and are    *)
(* marked as such where they are defined.                                  *)
(***************************************************************************)
EXTENDS Integers, Sequences, FiniteSets, TLC

\* ------------------------------------------------------------------ bounds
\* arguments of new AntColony(startingFood, numTunnels, tunnelLength, moatFrequency)
NumTunnels == 2
TunnelLength == 2
MoatFrequency == 2
StartingFood == 3
\* number of Bee objects Hive.addWave may create in one run
MaxBees == 2
\* number of Ant objects AntGame.deployAnt may create in one run
MaxAnts == 2
\* takeTurn is not started once the turn counter has reached this value
MaxTurn == 3
\* waves are scheduled for turns up to this one
MaxWaveTurn == 1
\* turns taken where only the command surface is exercised
CmdTurns == 1
\* turns of a long game: one more than a bee needs to reach the queen
GameTurns == 4
\* largest distance given to Place.getClosestBee
MaxDistance == 3
\* largest numTunnels, tunnelLength and moatFrequency given to new AntColony
MaxDim == 4

\* food stops growing one above its starting value, a boost count at MaxBoost
MaxFood == StartingFood + 1
MaxBoost == 1

\* ------------------------------------------------------------------ values
\* JavaScript's undefined, as a value of each type that can hold it
Undefined == "undefined"
NoAnt == [kind |-> "none", boost |-> Undefined]
NoPlace == <<-9, -9>>

\* new Place('Ant Queen') and new Hive(..): places that are not in the grid
QueenPlace == <<-1, 0>>
HivePlace == <<-2, 0>>

Tunnels == 0 .. (NumTunnels - 1)
Steps == 0 .. (TunnelLength - 1)
Grid == Tunnels \X Steps
Places == Grid \cup {QueenPlace, HivePlace}
BeeIds == 1 .. MaxBees

\* row-major order of the grid: places[i][j] for i, then j
RowMajor == [n \in 1 .. (NumTunnels * TunnelLength) |->
               <<(n - 1) \div TunnelLength, (n - 1) % TunnelLength>>]

VARIABLES
  food,      \* AntColony.food
  boosts,    \* AntColony.boosts: boost name -> count (the domain grows)
  ant,       \* Place.ant of every grid place (NoAnt when undefined)
  guard,     \* Place.guard of every grid place (NoAnt when undefined)
  bees,      \* Place.bees of every place, the hive and the queen's place too
  beePlace,  \* Insect.place of every bee created so far
  waves,     \* Hive.waves: attack turn -> the wave (the domain grows)
  nBees,     \* number of Bee objects created so far
  nAnts,     \* number of Ant objects created so far
  turn,      \* AntGame.turn
  nTurns,    \* number of calls of AntGame.takeTurn made so far
  pc,        \* position inside AntGame.takeTurn ("idle" between calls)
  ret,       \* the last public call and the value it returned (addWave returns the hive)
  log        \* what acted in the takeTurn in progress or just completed

vars == <<food, boosts, ant, guard, bees, beePlace, waves, nBees, nAnts, turn, nTurns, pc, ret,
          log>>

\* ------------------------------------------------------------ the colony
\* AntColony constructor: the terrain of places[tunnel][step]
isWater(p) ==
  MoatFrequency # 0 /\ (p[2] + 1) % MoatFrequency = 0

\* Place.exit as wired by the constructor: prev is the queen's place for step 0
getExit(p) ==
  IF p \in Grid
    THEN IF p[2] = 0 THEN QueenPlace ELSE <<p[1], p[2] - 1>>
    ELSE NoPlace

\* Place.entrance as wired by prev.setEntrance(curr); the queen's entrance is
\* overwritten by every tunnel, the last tunnel's first place remains
getEntrance(p) ==
  IF p \in Grid
    THEN IF p[2] + 1 < TunnelLength THEN <<p[1], p[2] + 1>> ELSE NoPlace
    ELSE IF p = QueenPlace /\ NumTunnels > 0 /\ TunnelLength > 0
           THEN <<NumTunnels - 1, 0>>
           ELSE NoPlace

\* AntColony.beeEntrances: the last place of every tunnel, in tunnel order
getEntrances == [t \in 1 .. NumTunnels |->
                   IF TunnelLength > 0 THEN <<t - 1, TunnelLength - 1>> ELSE QueenPlace]

\* AntColony constructor, loop by loop, for any numTunnels, tunnelLength and
\* moatFrequency up to MaxDim.  A colony under construction: the places made
\* so far, their exit, entrance and water fields, and beeEntrances.
BuildPlaces == ((0 .. MaxDim - 1) \X (0 .. MaxDim - 1)) \cup {QueenPlace}

emptyColony ==
  [made |-> {},
   exit |-> [p \in BuildPlaces |-> NoPlace],
   entrance |-> [p \in BuildPlaces |-> NoPlace],
   water |-> [p \in BuildPlaces |-> FALSE],
   beeEntrances |-> <<>>]

\* an inner loop that tests step % moatFrequency instead of step + 1
RECURSIVE buildStepsMoatAtStep(_, _, _, _, _, _)
buildStepsMoatAtStep(c, tunnel, step, curr, tunnelLength, moatFrequency) ==
  IF step >= tunnelLength
    THEN [c |-> c, curr |-> curr]
    ELSE LET p == <<tunnel, step>>
             water == moatFrequency # 0 /\ step % moatFrequency = 0
         IN  buildStepsMoatAtStep([c EXCEPT !.made = @ \cup {p},
                                            !.exit[p] = curr,
                                            !.water[p] = water,
                                            !.entrance[curr] = p],
                                  tunnel, step + 1, p, tunnelLength, moatFrequency)

\* the inner loop: prev = curr; curr = new Place(.., water, prev);
\* prev.setEntrance(curr); places[tunnel][step] = curr
RECURSIVE buildSteps(_, _, _, _, _, _)
buildSteps(c, tunnel, step, curr, tunnelLength, moatFrequency) ==
  IF step >= tunnelLength
    THEN [c |-> c, curr |-> curr]
    ELSE LET p == <<tunnel, step>>
             water == moatFrequency # 0 /\ (step + 1) % moatFrequency = 0
         IN  buildSteps([c EXCEPT !.made = @ \cup {p},
                                  !.exit[p] = curr,
                                  !.water[p] = water,
                                  !.entrance[curr] = p],
                        tunnel, step + 1, p, tunnelLength, moatFrequency)

\* the outer loop: curr = this.queenPlace; ..; this.beeEntrances.push(curr)
RECURSIVE buildTunnels(_, _, _, _, _)
buildTunnels(c, tunnel, numTunnels, tunnelLength, moatFrequency) ==
  IF tunnel >= numTunnels
    THEN c
    ELSE LET r == buildSteps(c, tunnel, 0, QueenPlace, tunnelLength, moatFrequency)
         IN  buildTunnels([r.c EXCEPT !.beeEntrances = Append(@, r.curr)],
                          tunnel + 1, numTunnels, tunnelLength, moatFrequency)

newAntColony(numTunnels, tunnelLength, moatFrequency) ==
  buildTunnels(emptyColony, 0, numTunnels, tunnelLength, moatFrequency)

\* ------------------------------------------------------------------ Place
\* (w is the record of mutable objects defined below as World)
\* Place.getAnt: the guard shields the regular ant
getAnt(w, p) == IF w.guard[p] # NoAnt THEN w.guard[p] ELSE w.ant[p]

\* Place.getGuardedAnt
getGuardedAnt(w, p) == w.ant[p]

\* (ant instanceof GuardAnt)
isGuardAnt(a) == a.kind = "guard"

\* an addAnt that takes the place of the occupant of the slot
addAntOverwrite(slots, a) ==
  IF isGuardAnt(a)
    THEN [ant |-> slots.ant, guard |-> a, ok |-> TRUE]
    ELSE [ant |-> a, guard |-> slots.guard, ok |-> TRUE]

\* Place.addAnt on the slots of one place: the new slots and the result
addAnt(slots, a) ==
  IF isGuardAnt(a)
    THEN IF slots.guard = NoAnt
           THEN [ant |-> slots.ant, guard |-> a, ok |-> TRUE]
           ELSE [ant |-> slots.ant, guard |-> slots.guard, ok |-> FALSE]
    ELSE IF slots.ant = NoAnt
           THEN [ant |-> a, guard |-> slots.guard, ok |-> TRUE]
           ELSE [ant |-> slots.ant, guard |-> slots.guard, ok |-> FALSE]

\* a removeAnt that takes the regular ant before the guard
removeAntRegularFirst(slots) ==
  IF slots.ant # NoAnt
    THEN [ant |-> NoAnt, guard |-> slots.guard, removed |-> slots.ant]
    ELSE [ant |-> NoAnt, guard |-> NoAnt, removed |-> slots.guard]

\* Place.removeAnt on the slots of one place: the new slots and the ant returned
removeAnt(slots) ==
  IF slots.guard # NoAnt
    THEN [ant |-> slots.ant, guard |-> NoAnt, removed |-> slots.guard]
    ELSE [ant |-> NoAnt, guard |-> NoAnt, removed |-> slots.ant]

\* a Place.act that washes away the guard or else the regular ant, not both
placeActOneOnly(slots, water) ==
  IF water
    THEN IF slots.guard # NoAnt
           THEN [ant |-> slots.ant, guard |-> NoAnt]
           ELSE IF slots.ant.kind # "scuba"
                  THEN [ant |-> NoAnt, guard |-> NoAnt]
                  ELSE [ant |-> slots.ant, guard |-> slots.guard]
    ELSE [ant |-> slots.ant, guard |-> slots.guard]

\* Place.act on the slots of one place: water washes the ants away
placeAct(slots, water) ==
  IF water
    THEN LET s1 == IF slots.guard # NoAnt
                     THEN removeAnt(slots)
                     ELSE [ant |-> slots.ant, guard |-> slots.guard, removed |-> NoAnt]
             s2 == IF s1.ant.kind # "scuba"
                     THEN removeAnt(s1)
                     ELSE s1
         IN  [ant |-> s2.ant, guard |-> s2.guard]
    ELSE [ant |-> slots.ant, guard |-> slots.guard]

\* the two ant slots of a grid place
slotsOf(w, p) == [ant |-> w.ant[p], guard |-> w.guard[p]]

\* the world with the slots of place p replaced
withSlots(w, p, slots) ==
  [w EXCEPT !.ant[p] = slots.ant, !.guard[p] = slots.guard]


\* ------------------------------------------------- the mutable world
\* The objects a handler mutates, as one record, so that the calls a handler
\* makes one after another compose.  err is set when a call throws.
World == [food |-> food, boosts |-> boosts, ant |-> ant, guard |-> guard,
          bees |-> bees, beePlace |-> beePlace, log |-> log, err |-> FALSE]

\* Array.indexOf: the first index holding x, 0 when there is none
indexOf(seq, x) ==
  IF \E i \in 1 .. Len(seq) : seq[i] = x
    THEN CHOOSE i \in 1 .. Len(seq) : seq[i] = x /\ \A j \in 1 .. (i - 1) : seq[j] # x
    ELSE 0

\* Array.splice(index, 1)
splice(seq, i) == SubSeq(seq, 1, i - 1) \o SubSeq(seq, i + 1, Len(seq))

\* Place.addBee
addBee(w, p, b) ==
  [w EXCEPT !.bees[p] = Append(@, b), !.beePlace[b] = p]

\* Place.removeBee: only a bee found in this place's list is detached
removeBee(w, p, b) ==
  LET index == indexOf(w.bees[p], b)
  IN  IF index >= 1
        THEN [w EXCEPT !.bees[p] = splice(@, index), !.beePlace[b] = NoPlace]
        ELSE w

\* Place.exitBee: removeBee, then this.exit.addBee, which throws a TypeError
\* when this.exit is undefined
exitBee(w, p, b) ==
  LET w1 == removeBee(w, p, b)
  IN  IF getExit(p) = NoPlace
        THEN [w1 EXCEPT !.err = TRUE]
        ELSE addBee(w1, getExit(p), b)

\* a getClosestBee whose loop stops one hop early (dist < maxDistance)
RECURSIVE closestFromBelowMax(_, _, _, _, _)
closestFromBelowMax(w, p, dist, maxDistance, minDistance) ==
  IF p = NoPlace \/ dist >= maxDistance
    THEN 0
    ELSE IF dist >= minDistance /\ Len(w.bees[p]) > 0
           THEN w.bees[p][1]
           ELSE closestFromBelowMax(w, getEntrance(p), dist + 1, maxDistance, minDistance)

\* Place.getClosestBee: the loop over dist, following entrance links
RECURSIVE closestFrom(_, _, _, _, _)
closestFrom(w, p, dist, maxDistance, minDistance) ==
  IF p = NoPlace \/ dist > maxDistance
    THEN 0
    ELSE IF dist >= minDistance /\ Len(w.bees[p]) > 0
           THEN w.bees[p][1]
           ELSE closestFrom(w, getEntrance(p), dist + 1, maxDistance, minDistance)

\* Place.getClosestBee(maxDistance, minDistance): a bee id, 0 for undefined
getClosestBee(w, p, maxDistance, minDistance) ==
  closestFrom(w, p, 0, maxDistance, minDistance)

\* this.waves[t], the empty list when undefined
waveAt(wv, t) == IF t \in DOMAIN wv THEN wv[t] ELSE <<>>

\* AntColony.increaseFood (growth stops at MaxFood to keep the model finite)
increaseFood(w, amount) ==
  IF w.food + amount <= MaxFood THEN [w EXCEPT !.food = @ + amount] ELSE w

\* AntColony.addBoost (growth stops at MaxBoost to keep the model finite)
addBoost(w, boost) ==
  LET known == boost \in DOMAIN w.boosts
      old == IF known THEN w.boosts[boost] ELSE 0
      new == IF old < MaxBoost THEN old + 1 ELSE old
  IN  [w EXCEPT !.boosts = [b \in DOMAIN w.boosts \cup {boost} |->
                              IF b = boost THEN new ELSE w.boosts[b]]]

\* AntColony.getAllAnts: the visible ant (Place.getAnt) of every place that
\* has one, row-major; kept as the places, whose visible ant is the element
RECURSIVE allAntsFrom(_, _)
allAntsFrom(w, n) ==
  IF n > Len(RowMajor)
    THEN <<>>
    ELSE LET p == RowMajor[n]
         IN  (IF w.guard[p] # NoAnt \/ w.ant[p] # NoAnt THEN <<p>> ELSE <<>>)
               \o allAntsFrom(w, n + 1)

\* a getAllAnts that lists a place once for each of its two slots in use
RECURSIVE allSlotsFrom(_, _)
allSlotsFrom(w, n) ==
  IF n > Len(RowMajor)
    THEN <<>>
    ELSE LET p == RowMajor[n]
         IN  (IF w.guard[p] # NoAnt THEN <<p>> ELSE <<>>)
               \o (IF w.ant[p] # NoAnt THEN <<p>> ELSE <<>>)
               \o allSlotsFrom(w, n + 1)

getAllAntsBothSlots(w) == allSlotsFrom(w, 1)

getAllAnts(w) == allAntsFrom(w, 1)

\* AntColony.getAllBees: the concatenation of the bees of the grid, row-major
RECURSIVE allBeesFrom(_, _)
allBeesFrom(w, n) ==
  IF n > Len(RowMajor)
    THEN <<>>
    ELSE w.bees[RowMajor[n]] \o allBeesFrom(w, n + 1)

\* a getAllBees that also lists the bees of the queen's place
getAllBeesWithQueen(w) == w.bees[QueenPlace] \o allBeesFrom(w, 1)

getAllBees(w) == allBeesFrom(w, 1)

\* the number of entries of all bee lists (a bee listed twice counts twice)
listed(w) == Len(getAllBees(w)) + Len(w.bees[QueenPlace]) + Len(w.bees[HivePlace])

\* AntColony.queenHasBees
queenHasBees(w) == Len(w.bees[QueenPlace]) > 0

\* a gameIsWon that forgets the bees still waiting in the hive
gameIsWonColonyOnly(w) ==
  IF queenHasBees(w)
    THEN "false"
    ELSE IF Len(getAllBees(w)) = 0 THEN "true" ELSE Undefined

\* AntGame.gameIsWon: "false", "true" or Undefined
gameIsWon(w) ==
  IF queenHasBees(w)
    THEN "false"
    ELSE IF Len(getAllBees(w)) + Len(w.bees[HivePlace]) = 0
           THEN "true"
           ELSE Undefined


\* ------------------------------------------------------------------ Hive
\* Hive.addWave: numBees new bees, each added to the hive's own bee list, and
\* the wave stored under attackTurn (replacing a wave stored there before)
RECURSIVE addWaveBees(_, _, _)
addWaveBees(w, first, numBees) ==
  IF numBees <= 0
    THEN w
    ELSE addWaveBees(addBee(w, HivePlace, first), first + 1, numBees - 1)

newWave(first, numBees) == [i \in 1 .. numBees |-> first + i - 1]

addWave(wv, attackTurn, wave) ==
  [t \in DOMAIN wv \cup {attackTurn} |-> IF t = attackTurn THEN wave ELSE wv[t]]

\* an invade that adds the bees to the entrances without taking them from the hive
RECURSIVE invadeFromKeeping(_, _, _, _)
invadeFromKeeping(w, wave, i, entrance) ==
  IF i > Len(wave)
    THEN w
    ELSE invadeFromKeeping(addBee(w, getEntrances[entrance[i]], wave[i]),
                           wave, i + 1, entrance)

\* Hive.invade: every bee of the wave of currentTurn leaves the hive for the
\* entrance drawn for it (Math.random: entrance[i] is the draw for bee i)
RECURSIVE invadeFrom(_, _, _, _)
invadeFrom(w, wave, i, entrance) ==
  IF i > Len(wave)
    THEN w
    ELSE invadeFrom(addBee(removeBee(w, HivePlace, wave[i]), getEntrances[entrance[i]], wave[i]),
                    wave, i + 1, entrance)

invade(w, wv, currentTurn, entrance) ==
  IF currentTurn \in DOMAIN wv
    THEN [w |-> invadeFrom(w, wv[currentTurn], 1, entrance), val |-> wv[currentTurn]]
    ELSE [w |-> w, val |-> <<>>]


\* ------------------------------------------------- insects (from ./ants)
\* What the engine needs of the insect classes, taken from the written
\* specification: armour and damage are not tracked, an attack either
\* removes its target or leaves it, as the draw given to the act says.

\* Ant.getFoodCost of each variant
getFoodCost(kind) ==
  CASE kind = "grower" -> 1
    [] kind = "guard" -> 1
    [] kind = "thrower" -> 2
    [] kind = "scuba" -> 2
    [] kind = "eater" -> 3

\* the targeting window <<maxDistance, minDistance>> of an attacking variant
targetWindow(kind) ==
  IF kind = "eater" THEN <<0, 0>> ELSE <<3, 0>>

\* the boost a grower may discover
GrowerFinds == "BugSpray"

\* Ant.setBoost: the last boost applied wins
setBoost(a, boost) == [a EXCEPT !.boost = boost]

\* Ant.act(colony) of the ant in the given slot (1 guard, 0 regular) of p:
\* a grower may add food or discover a boost, an attacker may remove the bee
\* Place.getClosestBee gives it, a guard does nothing of its own
antAct(w, p, slot, draw) ==
  LET a == IF slot = 1 THEN w.guard[p] ELSE w.ant[p]
      w1 == [w EXCEPT !.log = Append(@, <<"ant", p[1], p[2], slot>>)]
      target == getClosestBee(w1, p, targetWindow(a.kind)[1], targetWindow(a.kind)[2])
  IN  CASE a.kind = "grower" ->
             IF draw = 1 THEN increaseFood(w1, 1)
             ELSE IF draw = 2 THEN addBoost(w1, GrowerFinds)
             ELSE w1
        [] a.kind \in {"thrower", "scuba", "eater"} ->
             IF draw = 1 /\ target # 0 /\ w1.beePlace[target] # NoPlace
               THEN removeBee(w1, w1.beePlace[target], target)
               ELSE w1
        [] OTHER -> w1

\* Bee.act: a bee whose place shows an ant stings it (the ant may be removed,
\* through Place.removeAnt); any other bee leaves through Place.exitBee
beeAct(w, b, draw) ==
  LET p == w.beePlace[b]
      w1 == [w EXCEPT !.log = Append(@, <<"bee", b, p[1], p[2]>>)]
  IN  IF p = NoPlace
        THEN [w1 EXCEPT !.err = TRUE]
        ELSE IF p \in Grid /\ getAnt(w1, p) # NoAnt
          THEN IF draw = 1
                 THEN withSlots(w1, p, removeAnt(slotsOf(w1, p)))
                 ELSE w1
          ELSE exitBee(w1, p, b)

\* ------------------------------------------------------------ AntColony
\* AntColony.antsAct: the body of the forEach for the n-th ant of the list
\* getAllAnts returned: a guard first lets the ant it shields act
RECURSIVE antsActFrom(_, _, _, _)
antsActFrom(w, all, n, draw) ==
  IF n > Len(all)
    THEN w
    ELSE LET p == all[n]
             w1 == IF w.guard[p] # NoAnt
                     THEN LET w0 == IF getGuardedAnt(w, p) # NoAnt
                                      THEN antAct(w, p, 0, draw[n])
                                      ELSE w
                          IN  antAct(w0, p, 1, draw[n])
                     ELSE antAct(w, p, 0, draw[n])
         IN  antsActFrom(w1, all, n + 1, draw)

antsAct(w, draw) == antsActFrom(w, getAllAnts(w), 1, draw)

\* AntColony.beesAct: every bee of the list getAllBees returned acts; an
\* exception ends the loop
RECURSIVE beesActFrom(_, _, _, _)
beesActFrom(w, all, n, draw) ==
  IF n > Len(all) \/ w.err
    THEN w
    ELSE beesActFrom(beeAct(w, all[n], draw[n]), all, n + 1, draw)

beesAct(w, draw) == beesActFrom(w, getAllBees(w), 1, draw)

\* AntColony.placesAct: Place.act of every grid place, row-major
RECURSIVE placesActFrom(_, _)
placesActFrom(w, n) ==
  IF n > Len(RowMajor)
    THEN w
    ELSE LET p == RowMajor[n]
         IN  placesActFrom(withSlots(w, p, placeAct(slotsOf(w, p), isWater(p))), n + 1)

placesAct(w) ==
  placesActFrom([w EXCEPT !.log = Append(@, <<"places", 0, 0, 0>>)], 1)

\* a deployAnt that asks for some food, not for the cost of the ant
colonyDeployAntOnCredit(w, a, place) ==
  IF w.food > 0
    THEN IF place = NoPlace
           THEN [w |-> w, val |-> "TypeError", threw |-> TRUE]
           ELSE LET r == addAnt(slotsOf(w, place), a)
                IN  IF r.ok
                      THEN [w |-> [withSlots(w, place, r) EXCEPT
                                     !.food = @ - getFoodCost(a.kind)],
                            val |-> Undefined, threw |-> FALSE]
                      ELSE [w |-> w, val |-> "tunnel already occupied", threw |-> FALSE]
    ELSE [w |-> w, val |-> "not enough food", threw |-> FALSE]

\* a deployAnt that takes the food before it knows whether the ant was placed
colonyDeployAntPaysFirst(w, a, place) ==
  IF w.food >= getFoodCost(a.kind)
    THEN IF place = NoPlace
           THEN [w |-> w, val |-> "TypeError", threw |-> TRUE]
           ELSE LET r == addAnt(slotsOf(w, place), a)
                    paid == [withSlots(w, place, r) EXCEPT !.food = @ - getFoodCost(a.kind)]
                IN  IF r.ok
                      THEN [w |-> paid, val |-> Undefined, threw |-> FALSE]
                      ELSE [w |-> paid, val |-> "tunnel already occupied", threw |-> FALSE]
    ELSE [w |-> w, val |-> "not enough food", threw |-> FALSE]

\* AntColony.deployAnt(ant, place); place is NoPlace when the caller's lookup
\* gave undefined, and place.addAnt then throws
colonyDeployAnt(w, a, place) ==
  IF w.food >= getFoodCost(a.kind)
    THEN IF place = NoPlace
           THEN [w |-> w, val |-> "TypeError", threw |-> TRUE]
           ELSE LET r == addAnt(slotsOf(w, place), a)
                IN  IF r.ok
                      THEN [w |-> [withSlots(w, place, r) EXCEPT
                                     !.food = @ - getFoodCost(a.kind)],
                            val |-> Undefined, threw |-> FALSE]
                      ELSE [w |-> w, val |-> "tunnel already occupied", threw |-> FALSE]
    ELSE [w |-> w, val |-> "not enough food", threw |-> FALSE]

\* an applyBoost that reaches past the guard to the ant it shields
applyBoostShielded(w, boost, place) ==
  IF boost \notin DOMAIN w.boosts \/ w.boosts[boost] < 1
    THEN [w |-> w, val |-> "no such boost", threw |-> FALSE]
    ELSE IF place = NoPlace
      THEN [w |-> w, val |-> "TypeError", threw |-> TRUE]
      ELSE IF getAnt(w, place) = NoAnt
        THEN [w |-> w, val |-> "no Ant at location", threw |-> FALSE]
        ELSE [w |-> IF w.ant[place] # NoAnt
                      THEN [w EXCEPT !.ant[place] = setBoost(@, boost)]
                      ELSE [w EXCEPT !.guard[place] = setBoost(@, boost)],
              val |-> Undefined, threw |-> FALSE]

\* AntColony.applyBoost(boost, place)
applyBoost(w, boost, place) ==
  IF boost \notin DOMAIN w.boosts \/ w.boosts[boost] < 1
    THEN [w |-> w, val |-> "no such boost", threw |-> FALSE]
    ELSE IF place = NoPlace
      THEN [w |-> w, val |-> "TypeError", threw |-> TRUE]
      ELSE IF getAnt(w, place) = NoAnt
        THEN [w |-> w, val |-> "no Ant at location", threw |-> FALSE]
        ELSE [w |-> IF w.guard[place] # NoAnt
                      THEN [w EXCEPT !.guard[place] = setBoost(@, boost)]
                      ELSE [w EXCEPT !.ant[place] = setBoost(@, boost)],
              val |-> Undefined, threw |-> FALSE]


\* -------------------------------------------------------------- AntGame
\* Strings that are taken apart (coordinates) are sequences of characters.
DigitChars == <<"0", "1", "2", "3", "4", "5", "6", "7", "8", "9">>

isDigit(c) == \E i \in 1 .. 10 : DigitChars[i] = c

digitValue(c) == (CHOOSE i \in 1 .. 10 : DigitChars[i] = c) - 1

\* String.split(','): the pieces between the commas, at least one piece
RECURSIVE splitFrom(_, _, _)
splitFrom(str, i, piece) ==
  IF i > Len(str)
    THEN <<piece>>
    ELSE IF str[i] = ","
           THEN <<piece>> \o splitFrom(str, i + 1, <<>>)
           ELSE splitFrom(str, i + 1, Append(piece, str[i]))

split(str) == splitFrom(str, 1, <<>>)

RECURSIVE decimalValue(_)
decimalValue(key) ==
  IF Len(key) = 0
    THEN 0
    ELSE 10 * decimalValue(SubSeq(key, 1, Len(key) - 1)) + digitValue(key[Len(key)])

\* array[key] for a string key and an array of the given length: the index
\* when key is the canonical decimal form of an index below length, -1 when
\* the property is undefined
arrayIndex(key, length) ==
  IF /\ Len(key) >= 1
     /\ \A i \in 1 .. Len(key) : isDigit(key[i])
     /\ (Len(key) > 1 => key[1] # "0")
     /\ decimalValue(key) < length
    THEN decimalValue(key)
    ELSE -1

\* this.colony.getPlaces()[coords[0]][coords[1]] after the split: indexing
\* an undefined row throws, an undefined column gives an undefined place
lookupPlace(placeCoordinates) ==
  LET coords == split(placeCoordinates)
      row == arrayIndex(coords[1], NumTunnels)
      col == IF Len(coords) >= 2 THEN arrayIndex(coords[2], TunnelLength) ELSE -1
  IN  IF row < 0
        THEN [threw |-> TRUE, place |-> NoPlace]
        ELSE IF col < 0
               THEN [threw |-> FALSE, place |-> NoPlace]
               ELSE [threw |-> FALSE, place |-> <<row, col>>]

\* String.toLowerCase on the ant type names given as input
toLowerCase(str) ==
  CASE str = "Grower" -> "grower"
    [] str = "THROWER" -> "thrower"
    [] str = "Scuba" -> "scuba"
    [] str = "Guard" -> "guard"
    [] str = "Eater" -> "eater"
    [] OTHER -> str

\* the switch of AntGame.deployAnt: the kind of the new ant, "none" for default
antOfType(antType) ==
  LET t == toLowerCase(antType)
  IN  IF t \in {"grower", "thrower", "eater", "scuba", "guard"} THEN t ELSE "none"

\* AntGame.deployAnt(antType, placeCoordinates)
gameDeployAnt(w, antType, placeCoordinates) ==
  IF antOfType(antType) = "none"
    THEN [w |-> w, val |-> "unknown ant type"]
    ELSE LET l == lookupPlace(placeCoordinates)
             r == colonyDeployAnt(w, [kind |-> antOfType(antType), boost |-> Undefined],
                                  l.place)
         IN  IF l.threw \/ r.threw
               THEN [w |-> w, val |-> "illegal location"]
               ELSE [w |-> r.w, val |-> r.val]

\* AntGame.removeAnt(placeCoordinates)
gameRemoveAnt(w, placeCoordinates) ==
  LET l == lookupPlace(placeCoordinates)
  IN  IF l.threw \/ l.place = NoPlace
        THEN [w |-> w, val |-> "illegal location"]
        ELSE [w |-> withSlots(w, l.place, removeAnt(slotsOf(w, l.place))),
              val |-> Undefined]

\* AntGame.boostAnt(boostType, placeCoordinates)
gameBoostAnt(w, boostType, placeCoordinates) ==
  LET l == lookupPlace(placeCoordinates)
      r == applyBoost(w, boostType, l.place)
  IN  IF l.threw \/ r.threw
        THEN [w |-> w, val |-> "illegal location"]
        ELSE [w |-> r.w, val |-> r.val]

\* AntGame.getBoostNames: the boosts with a count above zero
getBoostNames(w) == {b \in DOMAIN w.boosts : w.boosts[b] > 0}

\* ------------------------------------------------------------- inputs
coordsOf(row, col) == <<DigitChars[row + 1], ",", DigitChars[col + 1]>>

\* "row,col" of every place of the grid
GridCoords == {coordsOf(p[1], p[2]) : p \in Grid}

\* every "row,col" of the grid, and one with the row and one with the column
\* just beyond it
WellFormedCoords ==
  GridCoords \cup {coordsOf(NumTunnels, 0), coordsOf(0, TunnelLength)}

\* "", "0", "0,x", "x,0", "00,0", "0,0,0"
MalformedCoords ==
  { <<>>, <<"0">>, <<"0", ",", "x">>, <<"x", ",", "0">>,
    <<"0", "0", ",", "0">>, <<"0", ",", "0", ",", "0">> }

CoordInputs == WellFormedCoords \cup MalformedCoords

AntTypeInputs == {"Grower", "thrower", "scuba", "Guard", "queen"}

BoostInputs == {"FlyingLeaf", "BugSpray", "Honey"}

\* the draws of an ant's act: 0 nothing, 1 food or a hit that removes, 2 a boost
PlainDraws == {0, 1}
AllDraws == {0, 1, 2}

\* ------------------------------------------------------------- actions
Install(w) ==
  /\ food' = w.food
  /\ boosts' = w.boosts
  /\ ant' = w.ant
  /\ guard' = w.guard
  /\ bees' = w.bees
  /\ beePlace' = w.beePlace
  /\ log' = w.log

Idle == pc = "idle"

\* the value of ret after the call op returned val (Hive.invade returns a
\* wave, kept apart in the field wave)
Returned(op, val) == [op |-> op, val |-> val, wave |-> <<>>]

\* the world a call between two turns starts from: the log of the last turn is dropped
Command == [World EXCEPT !.log = <<>>]

\* deploy <antType> <tunnel>
DeployAnt(antType, placeCoordinates) ==
  /\ Idle
  /\ nAnts < MaxAnts
  /\ LET r == gameDeployAnt(Command, antType, placeCoordinates)
     IN  /\ Install(r.w)
         /\ ret' = Returned("deployAnt", r.val)
         /\ nAnts' = IF r.val = Undefined THEN nAnts + 1 ELSE nAnts
  /\ UNCHANGED <<waves, nBees, turn, nTurns, pc>>

\* remove <tunnel>
RemoveAnt(placeCoordinates) ==
  /\ Idle
  /\ LET r == gameRemoveAnt(Command, placeCoordinates)
     IN  /\ Install(r.w)
         /\ ret' = Returned("removeAnt", r.val)
  /\ UNCHANGED <<waves, nBees, nAnts, turn, nTurns, pc>>

\* boost <boost> <tunnel>
BoostAnt(boostType, placeCoordinates) ==
  /\ Idle
  /\ LET r == gameBoostAnt(Command, boostType, placeCoordinates)
     IN  /\ Install(r.w)
         /\ ret' = Returned("boostAnt", r.val)
  /\ UNCHANGED <<waves, nBees, nAnts, turn, nTurns, pc>>

\* game.gameIsWon(), as the turn command calls it after takeTurn: it reads
\* the bee lists and writes nothing
GameIsWon ==
  /\ Idle
  /\ ret' = Returned("gameIsWon", gameIsWon(World))
  /\ UNCHANGED <<food, boosts, ant, guard, bees, beePlace, waves, nBees, nAnts, turn, nTurns, pc,
                 log>>

\* place.getClosestBee(maxDistance, minDistance) called on a place of the
\* colony; ret keeps the bee found (0 for undefined) and the arguments
GetClosestBee(p, maxDistance, minDistance) ==
  /\ Idle
  /\ LET b == getClosestBee(World, p, maxDistance, minDistance)
     IN  ret' = [op |-> "getClosestBee",
                 val |-> IF b = 0 THEN Undefined ELSE "bee",
                 wave |-> <<b, p[1], p[2], maxDistance, minDistance>>]
  /\ UNCHANGED <<food, boosts, ant, guard, bees, beePlace, waves, nBees, nAnts, turn, nTurns, pc,
                 log>>

\* place.exitBee(bee) called for a bee of that place, as Bee.act calls it
ExitBee(p, b) ==
  /\ Idle
  /\ \E i \in 1 .. Len(bees[p]) : bees[p][i] = b
  /\ LET w == exitBee(Command, p, b)
     IN  /\ Install(w)
         /\ ret' = Returned("exitBee", IF w.err THEN "TypeError" ELSE Undefined)
  /\ UNCHANGED <<waves, nBees, nAnts, turn, nTurns, pc>>

\* new AntColony(startingFood, numTunnels, tunnelLength, moatFrequency): ret
\* keeps the colony built and the arguments
NewAntColony(numTunnels, tunnelLength, moatFrequency) ==
  /\ ret' = [op |-> "new AntColony", val |-> Undefined,
             wave |-> <<numTunnels, tunnelLength, moatFrequency>>,
             colony |-> newAntColony(numTunnels, tunnelLength, moatFrequency)]
  /\ UNCHANGED <<food, boosts, ant, guard, bees, beePlace, waves, nBees, nAnts, turn, nTurns, pc,
                 log>>

\* hive.addWave(attackTurn, numBees)
AddWave(attackTurn, numBees) ==
  /\ Idle
  /\ nBees + numBees <= MaxBees
  /\ Install(addWaveBees(Command, nBees + 1, numBees))
  /\ waves' = addWave(waves, attackTurn, newWave(nBees + 1, numBees))
  /\ nBees' = nBees + numBees
  /\ ret' = Returned("addWave", "hive")
  /\ UNCHANGED <<nAnts, turn, nTurns, pc>>

\* hive.invade(colony, currentTurn), called on the hive directly (not once the
\* bee lists would hold more than one entry above MaxBees)
Invade(currentTurn) ==
  /\ Idle
  /\ \E entrance \in [1 .. Len(waveAt(waves, currentTurn)) -> 1 .. NumTunnels] :
       LET r == invade(Command, waves, currentTurn, entrance)
       IN  /\ listed(r.w) <= MaxBees + 1
           /\ Install(r.w)
           /\ ret' = [op |-> "invade", val |-> "wave", wave |-> r.val]
  /\ UNCHANGED <<waves, nBees, nAnts, turn, nTurns, pc>>

\* a takeTurn that lets the hive invade before anything acts
PhaseOrderInvadeFirst == <<"invade", "antsAct", "beesAct", "placesAct">>

\* a takeTurn that lets the bees act before the ants
PhaseOrderBeesFirst == <<"beesAct", "antsAct", "placesAct", "invade">>

\* AntGame.takeTurn: the calls it makes, in the order it makes them; the
\* turn counter is incremented after the last
PhaseOrder == <<"antsAct", "beesAct", "placesAct", "invade">>

\* pc names the call takeTurn makes next; the first one starts from "idle"
phaseAfter(phase) ==
  LET i == CHOOSE k \in 1 .. Len(PhaseOrder) : PhaseOrder[k] = phase
  IN  IF i < Len(PhaseOrder) THEN PhaseOrder[i + 1] ELSE "idle"

\* takeTurn is about to make the call named phase (a new takeTurn is not
\* started once the turn counter or the number of calls has reached lastTurn)
At(phase, lastTurn) ==
  IF Idle
    THEN PhaseOrder[1] = phase /\ turn < lastTurn /\ nTurns < lastTurn
    ELSE pc = phase

\* the world the call starts from; a new takeTurn starts a new log
Begin == IF Idle THEN [Command EXCEPT !.log = <<<<"takeTurn", turn, 0, 0>>>>] ELSE World

\* a takeTurn that increments the turn counter after each of its calls
DoneTurnPerPhase(phase, w) ==
  LET last == phaseAfter(phase) = "idle"
  IN  /\ Install(IF last /\ ~w.err
                   THEN [w EXCEPT !.log = Append(@, <<"turn", turn + 1, 0, 0>>)]
                   ELSE w)
      /\ pc' = IF w.err THEN "idle" ELSE phaseAfter(phase)
      /\ turn' = IF ~w.err THEN turn + 1 ELSE turn
      /\ nTurns' = IF Idle THEN nTurns + 1 ELSE nTurns
      /\ ret' = Returned("takeTurn", IF w.err THEN "TypeError"
                                      ELSE IF last THEN Undefined ELSE "running")
      /\ UNCHANGED <<waves, nBees, nAnts>>

\* the call named phase has left the world w: an exception ends takeTurn,
\* the last call is followed by this.turn++
Done(phase, w) ==
  LET last == phaseAfter(phase) = "idle"
  IN  /\ Install(IF last /\ ~w.err
                   THEN [w EXCEPT !.log = Append(@, <<"turn", turn + 1, 0, 0>>)]
                   ELSE w)
      /\ pc' = IF w.err THEN "idle" ELSE phaseAfter(phase)
      /\ turn' = IF last /\ ~w.err THEN turn + 1 ELSE turn
      /\ nTurns' = IF Idle THEN nTurns + 1 ELSE nTurns
      /\ ret' = Returned("takeTurn", IF w.err THEN "TypeError"
                                      ELSE IF last THEN Undefined ELSE "running")
      /\ UNCHANGED <<waves, nBees, nAnts>>

\* takeTurn: this.colony.antsAct()
AntsAct(draws, lastTurn) ==
  /\ At("antsAct", lastTurn)
  /\ \E draw \in [1 .. Len(getAllAnts(Begin)) -> draws] :
       Done("antsAct", antsAct(Begin, draw))

\* takeTurn: this.colony.beesAct()
BeesAct(lastTurn) ==
  /\ At("beesAct", lastTurn)
  /\ \E draw \in [1 .. Len(getAllBees(Begin)) -> PlainDraws] :
       Done("beesAct", beesAct(Begin, draw))

\* takeTurn: this.colony.placesAct()
PlacesAct(lastTurn) ==
  /\ At("placesAct", lastTurn)
  /\ Done("placesAct", placesAct(Begin))

\* takeTurn: this.hive.invade(this.colony, this.turn)
InvadeTurn(lastTurn) ==
  /\ At("invade", lastTurn)
  /\ \E entrance \in [1 .. Len(waveAt(waves, turn)) -> 1 .. NumTunnels] :
       Done("invade",
            invade([Begin EXCEPT !.log = Append(@, <<"invade", turn, 0, 0>>)],
                   waves, turn, entrance).w)

\* ------------------------------------------------------- specifications
\* new AntColony(StartingFood, NumTunnels, TunnelLength, MoatFrequency), new
\* Hive(..), new AntGame(colony, hive): nothing deployed, no bee, turn 0
NewWorld ==
  [food |-> StartingFood,
   boosts |-> [b \in {"FlyingLeaf", "StickyLeaf", "IcyLeaf", "BugSpray"} |->
                 IF b = "BugSpray" THEN 0 ELSE 1],
   ant |-> [p \in Grid |-> NoAnt],
   guard |-> [p \in Grid |-> NoAnt],
   bees |-> [p \in Places |-> <<>>],
   beePlace |-> [b \in BeeIds |-> NoPlace],
   log |-> <<>>,
   err |-> FALSE]

\* the chained calls new Hive(..).addWave(..).addWave(..) made before the game
RECURSIVE schedule(_, _, _, _)
schedule(w, wv, n, calls) ==
  IF calls = <<>>
    THEN [w |-> w, waves |-> wv, nBees |-> n]
    ELSE LET c == Head(calls)
         IN  schedule(addWaveBees(w, n + 1, c[2]),
                      addWave(wv, c[1], newWave(n + 1, c[2])),
                      n + c[2], Tail(calls))

\* the hives a game starts with: no wave, one wave, or two waves of one bee
\* (the second possibly for the turn of the first)
WaveCalls ==
  {<<>>}
    \cup {<< <<t, n>> >> : t \in 0 .. MaxWaveTurn, n \in 1 .. MaxBees}
    \cup {<< <<t, 1>>, <<u, 1>> >> : t \in 0 .. MaxWaveTurn, u \in 0 .. MaxWaveTurn}

InitWith(calls) ==
  LET h == schedule(NewWorld, [t \in {} |-> <<>>], 0, calls)
  IN  /\ food = h.w.food
      /\ boosts = h.w.boosts
      /\ ant = h.w.ant
      /\ guard = h.w.guard
      /\ bees = h.w.bees
      /\ beePlace = h.w.beePlace
      /\ log = h.w.log
      /\ waves = h.waves
      /\ nBees = h.nBees
      /\ nAnts = 0
      /\ turn = 0
      /\ nTurns = 0
      /\ pc = "idle"
      /\ ret = Returned("new", Undefined)

\* a game: the hive is filled before the game starts
Init == \E calls \in WaveCalls : InitWith(calls)

Next ==
  \/ \E t \in AntTypeInputs, c \in GridCoords : DeployAnt(t, c)
  \/ \E c \in GridCoords : RemoveAnt(c)
  \/ AntsAct(PlainDraws, MaxTurn)
  \/ BeesAct(MaxTurn)
  \/ PlacesAct(MaxTurn)
  \/ InvadeTurn(MaxTurn)

Spec == Init /\ [][Next]_vars

\* the command surface on a colony without bees: every input, boosts included
InitCmd == InitWith(<<>>)

NextCmd ==
  \/ \E t \in AntTypeInputs, c \in CoordInputs : DeployAnt(t, c)
  \/ \E c \in CoordInputs : RemoveAnt(c)
  \/ \E b \in BoostInputs, c \in CoordInputs : BoostAnt(b, c)
  \/ AntsAct(AllDraws, CmdTurns)
  \/ BeesAct(CmdTurns)
  \/ PlacesAct(CmdTurns)
  \/ InvadeTurn(CmdTurns)

SpecCmd == InitCmd /\ [][NextCmd]_vars

\* the hive driven directly: waves added and released at any time, no ants
NextHive ==
  \/ \E t \in 0 .. MaxWaveTurn, n \in 0 .. MaxBees : AddWave(t, n)
  \/ \E t \in 0 .. MaxWaveTurn : Invade(t)
  \/ AntsAct(PlainDraws, MaxTurn)
  \/ BeesAct(MaxTurn)
  \/ PlacesAct(MaxTurn)
  \/ InvadeTurn(MaxTurn)

SpecHive == InitCmd /\ [][NextHive]_vars

\* the places called directly: bees brought in by the turns of a game without
\* ants, getClosestBee asked of every place with every window up to
\* MaxDistance, exitBee called for a bee of the place
NextPlace ==
  \/ \E p \in Grid \cup {QueenPlace}, maxDistance \in 0 .. MaxDistance,
        minDistance \in 0 .. MaxDistance : GetClosestBee(p, maxDistance, minDistance)
  \/ \E p \in Grid \cup {QueenPlace}, b \in BeeIds : ExitBee(p, b)
  \/ AntsAct(PlainDraws, MaxTurn)
  \/ BeesAct(MaxTurn)
  \/ PlacesAct(MaxTurn)
  \/ InvadeTurn(MaxTurn)

SpecPlace == Init /\ [][NextPlace]_vars

\* colonies of every size up to MaxDim built one after another
NextBuild ==
  \E numTunnels \in 0 .. MaxDim, tunnelLength \in 0 .. MaxDim, moatFrequency \in 0 .. MaxDim :
    NewAntColony(numTunnels, tunnelLength, moatFrequency)

SpecBuild == InitCmd /\ [][NextBuild]_vars

\* a long game: one bee scheduled for turn 0 (or none), every command on the
\* places of the grid with throwers and guards, the outcome asked for between
\* turns, GameTurns turns
InitGame == InitWith(<<>>) \/ InitWith(<< <<0, 1>> >>)

GameAntTypes == {"thrower", "Guard"}

NextGame ==
  \/ \E t \in GameAntTypes, c \in GridCoords : DeployAnt(t, c)
  \/ \E c \in GridCoords : RemoveAnt(c)
  \/ \E b \in BoostInputs, c \in GridCoords : BoostAnt(b, c)
  \/ GameIsWon
  \/ AntsAct(PlainDraws, GameTurns)
  \/ BeesAct(GameTurns)
  \/ PlacesAct(GameTurns)
  \/ InvadeTurn(GameTurns)

SpecGame == InitGame /\ [][NextGame]_vars


\* =============================================================== claims
\* ------------------------------------------------------ reading the log
\* the position of an event of the log among the steps of a turn
rank(e) ==
  CASE e[1] = "takeTurn" -> 0
    [] e[1] = "ant" -> 1
    [] e[1] = "bee" -> 2
    [] e[1] = "places" -> 3
    [] e[1] = "invade" -> 4
    [] e[1] = "turn" -> 5

logHas(l, kind) == \E i \in 1 .. Len(l) : l[i][1] = kind

isPrefix(l, m) == Len(l) <= Len(m) /\ SubSeq(m, 1, Len(l)) = l

\* a step that starts a takeTurn, and one that ends it normally
StartsTurn == pc = "idle" /\ pc' # "idle"
EndsTurn == turn' # turn

\* the ants deployed: <<tunnel, step, slot>> with slot 1 for the guard
antsDeployed ==
  {<<p[1], p[2], 0>> : p \in {q \in Grid : ant[q] # NoAnt}}
    \cup {<<p[1], p[2], 1>> : p \in {q \in Grid : guard[q] # NoAnt}}

\* C1 (state part): in the log of a turn all ants act before all bees, the
\* bees before the places, the places before the hive's invasion, and the
\* turn counter is incremented after all of them, each phase once.
C1_LogOrdered ==
  /\ \A i, j \in 1 .. Len(log) :
       i < j => /\ rank(log[i]) <= rank(log[j])
                /\ (rank(log[j]) \in {0, 3, 4, 5} => rank(log[i]) < rank(log[j]))
  /\ (logHas(log, "turn") => logHas(log, "places") /\ logHas(log, "invade"))
  /\ (pc = "beesAct" => ~logHas(log, "bee") /\ ~logHas(log, "places"))
  /\ (pc = "placesAct" => ~logHas(log, "places") /\ ~logHas(log, "invade"))
  /\ (pc = "invade" => logHas(log, "places") /\ ~logHas(log, "invade"))

\* C1 (step part): the first step of takeTurn lets every deployed ant act
\* and no bee; the log only grows during a turn; the turn counter changes
\* only by the increment that closes the log of a complete turn.
C1_Step ==
  /\ StartsTurn =>
       /\ \A a \in antsDeployed :
            \E i \in 1 .. Len(log') : log'[i] = <<"ant", a[1], a[2], a[3]>>
       /\ ~logHas(log', "bee")
  /\ (pc # "idle" => isPrefix(log, log'))
  /\ EndsTurn =>
       /\ turn' = turn + 1
       /\ pc = "invade" /\ pc' = "idle"
       /\ log'[Len(log')] = <<"turn", turn', 0, 0>>
       /\ logHas(log', "places") /\ logHas(log', "invade")

\* C1: every takeTurn runs antsAct, beesAct, placesAct, hive.invade in this
\* order and only then increments the turn counter, so an ant sharing a place
\* with a bee at the start of a turn acts before that bee does.
C1_TurnOrder == []C1_LogOrdered /\ [][C1_Step]_vars

\* C1 witness: a completed turn in which an ant and then a bee acted at one place
C1_Witness ==
  /\ pc = "idle"
  /\ logHas(log, "turn")
  /\ \E i, j \in 1 .. Len(log) :
       /\ i < j
       /\ log[i][1] = "ant"
       /\ log[j][1] = "bee"
       /\ <<log[i][2], log[i][3]>> = <<log[j][3], log[j][4]>>

\* ------------------------------------------------------------------ C2
\* the bees listed in the grid and in the hive, counted place by place
beesOutsideQueen ==
  Cardinality(UNION {{<<p, i>> : i \in 1 .. Len(bees[p])} : p \in Grid \cup {HivePlace}})

\* C2: gameIsWon is false exactly when the queen's place holds a bee, true
\* exactly when it holds none and no bee is left in the grid or the hive,
\* and undefined in every other state.
C2_GameIsWon ==
  /\ (gameIsWon(World) = "false") <=> (Len(bees[QueenPlace]) >= 1)
  /\ (gameIsWon(World) = "true") <=> (Len(bees[QueenPlace]) = 0 /\ beesOutsideQueen = 0)
  /\ (gameIsWon(World) = Undefined) <=> (Len(bees[QueenPlace]) = 0 /\ beesOutsideQueen > 0)

\* C2 witness: a bee has reached the queen while no other bee is left: the
\* game is lost although the count of the remaining bees is zero
C2_Witness ==
  /\ Len(bees[QueenPlace]) >= 1
  /\ beesOutsideQueen = 0
  /\ gameIsWon(World) = "false"
  /\ ret = Returned("takeTurn", Undefined)


\* ------------------------------------------------------------------ C3
\* what a deploy command is about: the ant kind, the place, the cost, and
\* whether the slot for the kind is taken
kindOf(antType) == antOfType(antType)
placeOf(placeCoordinates) == lookupPlace(placeCoordinates).place
namesPlace(placeCoordinates) == placeOf(placeCoordinates) \in Grid
slotTaken(kind, p) == IF kind = "guard" THEN guard[p] # NoAnt ELSE ant[p] # NoAnt
newAnt(kind) == [kind |-> kind, boost |-> Undefined]

\* C3: a deployment to a place of the grid returns 'not enough food' when
\* food < cost, 'tunnel already occupied' when food >= cost and the slot of the
\* ant's kind is taken, both leaving food and occupants as they were, and
\* otherwise returns undefined with food lowered by exactly the cost.
C3_Step ==
  \A t \in AntTypeInputs, c \in CoordInputs :
    (ret'.op = "deployAnt" /\ kindOf(t) # "none" /\ namesPlace(c) /\ DeployAnt(t, c)) =>
      LET cost == getFoodCost(kindOf(t))
          taken == slotTaken(kindOf(t), placeOf(c))
      IN  /\ food < cost =>
                ret'.val = "not enough food" /\ food' = food /\ ant' = ant /\ guard' = guard
          /\ (food >= cost /\ taken) =>
                /\ ret'.val = "tunnel already occupied"
                /\ food' = food /\ ant' = ant /\ guard' = guard
          /\ (food >= cost /\ ~taken) =>
                ret'.val = Undefined /\ food' = food - cost

C3_DeployCharges == [][C3_Step]_vars

\* C3 witness: the second of two deployments of regular ants to one place
\* was refused and the food was debited once
C3_Witness ==
  /\ ret = Returned("deployAnt", "tunnel already occupied")
  /\ nAnts = 1
  /\ turn = 0
  /\ \E p \in Grid : ant[p] # NoAnt /\ food = StartingFood - getFoodCost(ant[p].kind)

\* ------------------------------------------------------------------ C4
\* C4 (as claimed): a boost command that returns undefined lowers the count
\* of that boost by one and leaves every other count as it was.
C4_Step ==
  \A b \in BoostInputs, c \in CoordInputs :
    (ret' = Returned("boostAnt", Undefined) /\ BoostAnt(b, c)) =>
      /\ DOMAIN boosts' = DOMAIN boosts
      /\ boosts'[b] = boosts[b] - 1
      /\ \A o \in DOMAIN boosts \ {b} : boosts'[o] = boosts[o]

C4_BoostConsumed == [][C4_Step]_vars

\* ------------------------------------------------------------------ C5
AllUnchanged == UNCHANGED <<food, boosts, ant, guard, bees, beePlace, waves, turn>>

\* C5 (as claimed): deploying a known kind, removing and boosting with
\* coordinates that name no place of the grid return 'illegal location' and
\* change nothing, whatever the food and the boost inventory are.
C5_Step ==
  \A c \in CoordInputs :
    ~namesPlace(c) =>
      /\ \A t \in AntTypeInputs :
           (ret'.op = "deployAnt" /\ kindOf(t) # "none" /\ DeployAnt(t, c)) =>
             ret'.val = "illegal location" /\ AllUnchanged
      /\ (ret'.op = "removeAnt" /\ RemoveAnt(c)) =>
           ret'.val = "illegal location" /\ AllUnchanged
      /\ \A b \in BoostInputs :
           (ret'.op = "boostAnt" /\ BoostAnt(b, c)) =>
             ret'.val = "illegal location" /\ AllUnchanged

C5_IllegalLocation == [][C5_Step]_vars

\* ------------------------------------------------------------------ C6
beeActed(l, b) == \E i \in 1 .. Len(l) : l[i][1] = "bee" /\ l[i][2] = b

inList(seq, x) == \E i \in 1 .. Len(seq) : seq[i] = x

entrancePlaces == {getEntrances[i] : i \in 1 .. NumTunnels}

waveBees(t) == {waveAt(waves, t)[i] : i \in 1 .. Len(waveAt(waves, t))}

\* C6 (state part): the bees of a wave whose turn has not been played are in
\* the hive, and a bee that acted in the turn logged belongs to a wave of an
\* earlier turn.
C6_Waiting ==
  /\ \A k \in DOMAIN waves :
       k >= turn => \A b \in waveBees(k) :
                      inList(bees[HivePlace], b) /\ beePlace[b] = HivePlace
  /\ \A k \in DOMAIN waves :
       \A b \in waveBees(k) : beeActed(log, b) => k < log[1][2]

\* C6 (step part): at the end of the takeTurn that started with turn = k the
\* bees of wave k are in entrances, out of the hive, and none has acted in
\* that call; in the next takeTurn those still in the colony act.
C6_Step ==
  /\ EndsTurn =>
       \A b \in waveBees(turn) :
         /\ beePlace'[b] \in entrancePlaces
         /\ inList(bees'[beePlace'[b]], b)
         /\ ~inList(bees'[HivePlace], b)
         /\ ~beeActed(log', b)
  /\ (pc = "beesAct" /\ pc' # pc /\ turn >= 1) =>
       \A b \in waveBees(turn - 1) :
         inList(getAllBees(World), b) => beeActed(log', b)

\* C6: the bees of the wave of turn k stay in the hive until the takeTurn
\* that starts with the turn counter at k, are all in entrances at its end
\* without having acted, and act first in the following takeTurn.
C6_SpawnLast == []C6_Waiting /\ [][C6_Step]_vars

\* C6 witness: in the turn after their release both bees of a wave have acted
C6_Witness ==
  /\ pc = "placesAct"
  /\ turn >= 1
  /\ Len(waveAt(waves, turn - 1)) >= 2
  /\ \A b \in waveBees(turn - 1) : beeActed(log, b)

\* ------------------------------------------------------------------ C7
count(seq, x) == Cardinality({i \in 1 .. Len(seq) : seq[i] = x})

\* C7: hive.invade(colony, t) with no wave stored for t returns the empty
\* list and changes no bee list; with a wave of n bees waiting in the hive
\* it takes exactly these n bees out of the hive, adds each to one entrance
\* (no bee list entry is lost or gained) and returns the wave.
C7_Step ==
  \A t \in 0 .. MaxWaveTurn :
    (ret'.op = "invade" /\ Invade(t)) =>
      IF t \notin DOMAIN waves
        THEN ret'.wave = <<>> /\ bees' = bees /\ beePlace' = beePlace
        ELSE (\A b \in waveBees(t) : inList(bees[HivePlace], b)) =>
               /\ ret'.wave = waves[t]
               /\ Len(bees'[HivePlace]) = Len(bees[HivePlace]) - Len(waves[t])
               /\ \A b \in waveBees(t) :
                    /\ ~inList(bees'[HivePlace], b)
                    /\ beePlace'[b] \in entrancePlaces
                    /\ \E e \in entrancePlaces :
                         /\ count(bees'[e], b) = count(bees[e], b) + 1
                         /\ \A o \in Places \ {e, HivePlace} :
                              count(bees'[o], b) = count(bees[o], b)
               /\ listed([World EXCEPT !.bees = bees']) = listed(World)
               /\ \A p \in Places \ (entrancePlaces \cup {HivePlace}) : bees'[p] = bees[p]

C7_InvadeMovesWave == [][C7_Step]_vars

\* C7 witness: an invade has just returned a wave of two bees, both now in entrances
C7_Witness ==
  /\ ret.op = "invade"
  /\ Len(ret.wave) = 2
  /\ bees[HivePlace] = <<>>
  /\ listed(World) = 2
  /\ \A i \in 1 .. 2 : beePlace[ret.wave[i]] \in entrancePlaces

\* ------------------------------------------------------------------ C8
PlacesActStep == pc = "placesAct" /\ pc' # pc

\* C8: Place.act leaves a water place without guard and without regular ant
\* unless that ant is a scuba ant, which stays as it is, guarded or not; it
\* changes nothing at a place that is not water; so it is at the end of a turn.
C8_Step ==
  /\ PlacesActStep =>
       \A p \in Grid :
         IF isWater(p)
           THEN /\ guard'[p] = NoAnt
                /\ ant'[p] = IF ant[p].kind = "scuba" THEN ant[p] ELSE NoAnt
           ELSE ant'[p] = ant[p] /\ guard'[p] = guard[p]
  /\ EndsTurn =>
       \A p \in Grid :
         isWater(p) => guard'[p] = NoAnt /\ ant'[p].kind \in {"none", "scuba"}

C8_WaterWashes == [][C8_Step]_vars

\* C8 witness: placesAct has just run; at a water place the guard that acted
\* this turn is gone and the scuba ant it shielded is still there
C8_Witness ==
  /\ pc = "invade"
  /\ ~logHas(log, "bee")
  /\ \E p \in Grid :
       /\ isWater(p)
       /\ ant[p].kind = "scuba"
       /\ guard[p] = NoAnt
       /\ inList(log, <<"ant", p[1], p[2], 1>>)
       /\ inList(log, <<"ant", p[1], p[2], 0>>)

\* ------------------------------------------------------------------ C9
\* C9: a deployment that reaches Place.addAnt fills the slot of the ant's
\* kind when that slot is empty, leaving the other slot alone, and otherwise
\* is refused and leaves both slots as they were; no other place changes.
C9_Step ==
  \A t \in AntTypeInputs, c \in CoordInputs :
    (ret'.op = "deployAnt" /\ kindOf(t) # "none" /\ namesPlace(c)
       /\ food >= getFoodCost(kindOf(t)) /\ DeployAnt(t, c)) =>
      LET p == placeOf(c)
          a == newAnt(kindOf(t))
      IN  IF kindOf(t) = "guard"
            THEN /\ ant' = ant
                 /\ IF guard[p] = NoAnt
                      THEN guard' = [guard EXCEPT ![p] = a] /\ ret'.val = Undefined
                      ELSE guard' = guard /\ ret'.val = "tunnel already occupied"
            ELSE /\ guard' = guard
                 /\ IF ant[p] = NoAnt
                      THEN ant' = [ant EXCEPT ![p] = a] /\ ret'.val = Undefined
                      ELSE ant' = ant /\ ret'.val = "tunnel already occupied"

C9_AddAntNeverOverwrites == [][C9_Step]_vars

\* C9 witness: a deployment has just succeeded at a place that now holds a
\* guard and a regular ant
C9_Witness ==
  /\ ret = Returned("deployAnt", Undefined)
  /\ \E p \in Grid : ant[p] # NoAnt /\ guard[p] # NoAnt

\* ----------------------------------------------------------------- C10
\* C10: Place.removeAnt takes (and returns) the guard when there is one and
\* leaves the regular ant, otherwise takes the regular ant, and changes
\* nothing at an empty place; the remove command on a place of the grid
\* returns undefined and leaves the food as it was.
C10_Step ==
  \A c \in CoordInputs :
    (ret'.op = "removeAnt" /\ namesPlace(c) /\ RemoveAnt(c)) =>
      LET p == placeOf(c)
      IN  /\ ret'.val = Undefined
          /\ food' = food
          /\ IF guard[p] # NoAnt
               THEN /\ guard' = [guard EXCEPT ![p] = NoAnt]
                    /\ ant' = ant
                    /\ removeAnt(slotsOf(World, p)).removed = guard[p]
               ELSE /\ guard' = guard
                    /\ ant' = [ant EXCEPT ![p] = NoAnt]
                    /\ removeAnt(slotsOf(World, p)).removed = ant[p]

C10_RemoveGuardFirst == [][C10_Step]_vars

\* C10 witness: of a guard and the regular ant it shielded only the regular
\* ant is left after a remove command, and no food has come back
C10_Witness ==
  /\ ret = Returned("removeAnt", Undefined)
  /\ turn = 0
  /\ nAnts = 2
  /\ \A p \in Grid : guard[p] = NoAnt
  /\ \E p \in Grid :
       /\ ant[p] # NoAnt
       /\ \A q \in Grid \ {p} : ant[q] = NoAnt
       /\ food = StartingFood - getFoodCost(ant[p].kind) - getFoodCost("guard")

\* ----------------------------------------------------------------- C11
\* the commands that are not takeTurn
CommandOps == {"deployAnt", "removeAnt", "boostAnt", "gameIsWon"}

\* C11 (state part): between turns the turn counter equals the number of
\* takeTurn calls made (0 at the start); inside a call it is still one behind.
C11_Counts ==
  /\ turn >= 0
  /\ IF pc = "idle" THEN turn = nTurns ELSE turn + 1 = nTurns

\* C11 (step part): deployAnt, removeAnt, boostAnt and gameIsWon leave the
\* turn counter as it was whatever they return; the counter changes only by
\* +1, and does so whenever a takeTurn completes.
C11_Step ==
  /\ ret'.op \in CommandOps => turn' = turn /\ nTurns' = nTurns
  /\ turn' # turn => turn' = turn + 1 /\ ret' = Returned("takeTurn", Undefined)
  /\ (pc # "idle" /\ pc' = "idle") => turn' = turn + 1

\* C11: the turn counter starts at 0, grows by exactly 1 with every completed
\* takeTurn and is left alone by every other command, so that after n calls
\* of takeTurn it equals n.
C11_TurnCounter == []C11_Counts /\ [][C11_Step]_vars

\* C11 witness: a command has just been refused after two turns were taken;
\* the counter still shows two
C11_Witness ==
  /\ pc = "idle"
  /\ nTurns = 2
  /\ turn = 2
  /\ ret.op \in CommandOps \ {"gameIsWon"}
  /\ ret.val # Undefined

\* ----------------------------------------------------------------- C12
\* the boost is known and at least one unit of it is left
available(b) == b \in DOMAIN boosts /\ boosts[b] >= 1

\* C12: in every state between turns, a boost command on a place of the grid
\* returns 'no such boost' when the boost is unknown or has no unit left,
\* whatever the place holds, and 'no Ant at location' when the boost is
\* available and the place holds no ant, both leaving the inventory and every
\* ant as they were; otherwise it returns undefined and sets the boost of the
\* guard when there is one (the shielded ant untouched) and of the regular
\* ant when there is no guard.
C12_BoostOutcomes ==
  pc = "idle" =>
    \A b \in BoostInputs, p \in Grid :
      LET r == gameBoostAnt(Command, b, coordsOf(p[1], p[2]))
      IN  /\ ~available(b) =>
                /\ r.val = "no such boost"
                /\ r.w.boosts = boosts /\ r.w.ant = ant /\ r.w.guard = guard
          /\ (available(b) /\ ant[p] = NoAnt /\ guard[p] = NoAnt) =>
                /\ r.val = "no Ant at location"
                /\ r.w.boosts = boosts /\ r.w.ant = ant /\ r.w.guard = guard
          /\ (available(b) /\ guard[p] # NoAnt) =>
                /\ r.val = Undefined
                /\ r.w.guard = [guard EXCEPT ![p].boost = b]
                /\ r.w.ant = ant
          /\ (available(b) /\ guard[p] = NoAnt /\ ant[p] # NoAnt) =>
                /\ r.val = Undefined
                /\ r.w.ant = [ant EXCEPT ![p].boost = b]
                /\ r.w.guard = guard

\* C12 witness: a boost has just been applied at a place where a guard
\* shields an ant: the guard carries it, the shielded ant does not
C12_Witness ==
  /\ ret = Returned("boostAnt", Undefined)
  /\ \E p \in Grid :
       /\ guard[p] # NoAnt /\ guard[p].boost # Undefined
       /\ ant[p] # NoAnt /\ ant[p].boost = Undefined

\* ----------------------------------------------------------------- C13
\* the turns under which the schedule records bee b
wavesOf(b) == {t \in DOMAIN waves : b \in waveBees(t)}

\* C13 (as claimed): every bee listed in the hive belongs to exactly one
\* wave of the schedule.
C13_HiveBeesScheduled ==
  \A i \in 1 .. Len(bees[HivePlace]) :
    Cardinality(wavesOf(bees[HivePlace][i])) = 1

\* ----------------------------------------------------------------- C14
\* the acts one antsAct is to log for the ants deployed now: place by place
\* in row-major order, the shielded ant (slot 0) right before its guard (slot 1)
RECURSIVE actsDue(_)
actsDue(n) ==
  IF n > Len(RowMajor)
    THEN <<>>
    ELSE LET p == RowMajor[n]
         IN  (IF ant[p] # NoAnt THEN << <<"ant", p[1], p[2], 0>> >> ELSE <<>>)
               \o (IF guard[p] # NoAnt THEN << <<"ant", p[1], p[2], 1>> >> ELSE <<>>)
               \o actsDue(n + 1)

AntsActStep == pc = "idle" /\ pc' = "beesAct"

\* C14: the antsAct of a turn lets the ants act in row-major order of their
\* places, at a place with a guard the shielded ant first and the guard right
\* after it, and every deployed ant, guard or not, shielded or not, exactly
\* once; it removes and adds no ant.
C14_Step ==
  AntsActStep =>
    /\ Tail(log') = actsDue(1)
    /\ \A a \in antsDeployed : count(log', <<"ant", a[1], a[2], a[3]>>) = 1
    /\ ant' = ant /\ guard' = guard

C14_EachAntOnce == [][C14_Step]_vars

\* C14 witness: antsAct has just run; a shielded ant acted and its guard
\* acted right after it
C14_Witness ==
  /\ pc = "beesAct"
  /\ \E p \in Grid, i \in 1 .. Len(log) - 1 :
       /\ log[i] = <<"ant", p[1], p[2], 0>>
       /\ log[i + 1] = <<"ant", p[1], p[2], 1>>

\* ----------------------------------------------------------------- C15
\* the place d hops from p along the entrance links, NoPlace past the end
RECURSIVE hop(_, _)
hop(p, d) ==
  IF d = 0 \/ p = NoPlace THEN p ELSE hop(getEntrance(p), d - 1)

\* the distances within the window at which a place with a bee lies
holders(p, maxDistance, minDistance) ==
  {d \in minDistance .. maxDistance : hop(p, d) # NoPlace /\ bees[hop(p, d)] # <<>>}

\* the first bee of the nearest such place, 0 when there is none
nearest(p, maxDistance, minDistance) ==
  LET ds == holders(p, maxDistance, minDistance)
  IN  IF ds = {}
        THEN 0
        ELSE bees[hop(p, CHOOSE d \in ds : \A e \in ds : d <= e)][1]

\* C15: getClosestBee(maxDistance, minDistance) called on place p has
\* returned the first bee of the nearest place on the chain of entrance links
\* from p whose distance d satisfies minDistance <= d <= maxDistance and that
\* holds a bee, and undefined when there is no such place; with maxDistance 0
\* a bee returned is at p itself; with minDistance > maxDistance it returned
\* undefined.
C15_ClosestBee ==
  ret.op = "getClosestBee" =>
    LET b == ret.wave[1]
        p == <<ret.wave[2], ret.wave[3]>>
        maxDistance == ret.wave[4]
        minDistance == ret.wave[5]
    IN  /\ b = nearest(p, maxDistance, minDistance)
        /\ (ret.val = Undefined) <=> (b = 0)
        /\ (maxDistance = 0 /\ b # 0) => (bees[p] # <<>> /\ b = bees[p][1])
        /\ minDistance > maxDistance => b = 0

\* C15 witness: the bee returned is one hop or more away, behind a bee at the
\* calling place itself that the minimum distance excludes
C15_Witness ==
  /\ ret.op = "getClosestBee"
  /\ ret.wave[1] # 0
  /\ ret.wave[5] >= 1
  /\ bees[<<ret.wave[2], ret.wave[3]>>] # <<>>
  /\ ret.wave[1] # bees[<<ret.wave[2], ret.wave[3]>>][1]

\* ----------------------------------------------------------------- C16
\* the place reached from p by following k exit links of colony c
RECURSIVE exitHops(_, _, _)
exitHops(c, p, k) ==
  IF k = 0 \/ p = NoPlace THEN p ELSE exitHops(c, c.exit[p], k - 1)

\* what C16 says of a colony c built with T tunnels of length L and moat
\* frequency M, the part on entrances left to entranceRule
builtAsClaimed(c, T, L, M, entranceRule(_, _)) ==
  /\ c.made = (0 .. T - 1) \X (0 .. L - 1)
  /\ Len(c.beeEntrances) = T
  /\ L >= 1 => \A t \in 0 .. T - 1 : c.beeEntrances[t + 1] = <<t, L - 1>>
  /\ \A p \in c.made :
       /\ c.exit[p] # NoPlace
       /\ exitHops(c, p, p[2] + 1) = QueenPlace
       /\ \A k \in 0 .. p[2] : exitHops(c, p, k) \in c.made
       /\ entranceRule(c, p)
       /\ c.water[p] <=> (M # 0 /\ (p[2] + 1) % M = 0)

\* as claimed: every place but the first step of a tunnel has an entrance
entranceButFirst(c, p) == p[2] # 0 => c.entrance[p] # NoPlace

\* as built: every place but the last step of a tunnel has an entrance, the
\* next step of its tunnel; the last step has none
entranceButLast(c, p) ==
  c.entrance[p] = IF <<p[1], p[2] + 1>> \in c.made THEN <<p[1], p[2] + 1>> ELSE NoPlace

\* the colony the game model uses is the one the constructor builds
asModelled(c) ==
  /\ c.made = Grid
  /\ \A q \in Grid : /\ c.exit[q] = getExit(q)
                      /\ c.entrance[q] = getEntrance(q)
                      /\ c.water[q] = isWater(q)
  /\ c.entrance[QueenPlace] = getEntrance(QueenPlace)
  /\ c.beeEntrances = getEntrances

\* C16 (as claimed): a colony built with T tunnels of length L and moat
\* frequency M has T entrances, one per tunnel; every place has an exit and
\* reaches the queen's place after exactly s+1 exit hops; every place except
\* the first step of each tunnel has an entrance; (t, s) is water exactly
\* when M is not 0 and divides s+1.
C16_AsClaimed ==
  ret.op = "new AntColony" =>
    builtAsClaimed(ret.colony, ret.wave[1], ret.wave[2], ret.wave[3], entranceButFirst)

\* C16 (amended): the same, except that it is the last step of each tunnel
\* that has no entrance: the entrance of (t, s) is (t, s+1) when s+1 < L and
\* undefined when s = L-1; and the colony of the given bounds is built as
\* the game model takes it to be.
C16_ColonyBuilt ==
  ret.op = "new AntColony" =>
    /\ builtAsClaimed(ret.colony, ret.wave[1], ret.wave[2], ret.wave[3], entranceButLast)
    /\ ret.wave = <<NumTunnels, TunnelLength, MoatFrequency>> => asModelled(ret.colony)

\* C16 witness: a colony with tunnels of two or more steps and a moat has
\* been built: the first step has an entrance, the last step has none
C16_Witness ==
  /\ ret.op = "new AntColony"
  /\ ret.wave[1] >= 2 /\ ret.wave[2] >= 2 /\ ret.wave[3] >= 2
  /\ \A t \in 0 .. ret.wave[1] - 1 :
       /\ ret.colony.entrance[<<t, 0>>] = <<t, 1>>
       /\ ret.colony.entrance[<<t, ret.wave[2] - 1>>] = NoPlace
       /\ ret.colony.water[<<t, ret.wave[3] - 1>>]

\* ----------------------------------------------------------------- C17
\* C17 (as claimed): exitBee called on the queen's place, which has no exit,
\* ends with an exception and leaves the bee list of that place as it was.
C17_Step ==
  \A b \in BeeIds :
    (ret'.op = "exitBee" /\ ExitBee(QueenPlace, b)) =>
      /\ ret'.val = "TypeError"
      /\ bees'[QueenPlace] = bees[QueenPlace]

C17_ExitBeeFailsLoudly == [][C17_Step]_vars

\* the part of C17 that holds: the call ends with an exception
C17_Throws ==
  [][\A b \in BeeIds :
       (ret'.op = "exitBee" /\ ExitBee(QueenPlace, b)) => ret'.val = "TypeError"]_vars

\* ----------------------------------------------------------------- C18
\* C18: the food is never negative, whatever commands and turns came before,
\* and a deployment whose cost is exactly the food left, to a free slot of a
\* place of the grid, succeeds and leaves the food at 0.
C18_FoodNonNegative ==
  /\ food >= 0
  /\ pc = "idle" =>
       \A t \in AntTypeInputs, p \in Grid :
         (kindOf(t) # "none" /\ food = getFoodCost(kindOf(t)) /\ ~slotTaken(kindOf(t), p)) =>
           LET r == gameDeployAnt(Command, t, coordsOf(p[1], p[2]))
           IN  r.val = Undefined /\ r.w.food = 0

\* C18 witness: a deployment has just succeeded and used up all the food
C18_Witness ==
  /\ ret = Returned("deployAnt", Undefined)
  /\ food = 0
  /\ nAnts >= 1

\* ----------------------------------------------------------------- C19
\* how often bee b is listed, over the bee lists of all places
timesListed(b) ==
  Cardinality({<<q, i>> \in Places \X (1 .. (MaxBees + 1)) :
                 i <= Len(bees[q]) /\ bees[q][i] = b})

\* C19 (state part, as claimed): every bee is listed at most once over all
\* places, and where it is listed is the place it refers to.
C19_Unique ==
  \A b \in 1 .. nBees :
    /\ timesListed(b) <= 1
    /\ \A q \in Places : inList(bees[q], b) => beePlace[b] = q

\* C19 (step part, as claimed): only addWave makes the bee lists longer.
C19_Step == ret'.op # "addWave" => listed([World EXCEPT !.bees = bees']) <= listed(World)

C19_BeesUnique == []C19_Unique /\ [][C19_Step]_vars

\* ----------------------------------------------------------------- C20
\* C20 (state part): no bee has acted from the queen's place (where its act
\* would be an exitBee on a place without exit), no call of a turn has
\* thrown, and gameIsWon asked with a bee at the queen's place returned false.
C20_NoExitAtQueen ==
  /\ \A i \in 1 .. Len(log) :
       log[i][1] = "bee" => <<log[i][3], log[i][4]>> \in Grid
  /\ ret.val # "TypeError"
  /\ (ret.op = "gameIsWon" /\ queenHasBees(World)) => ret.val = "false"

\* C20 (step part): a bee at the queen's place stays there, whatever is
\* called next, so gameIsWon stays false.
C20_Step ==
  queenHasBees(World) =>
    /\ isPrefix(bees[QueenPlace], bees'[QueenPlace])
    /\ \A i \in 1 .. Len(bees[QueenPlace]) : beePlace'[bees[QueenPlace][i]] = QueenPlace
    /\ gameIsWon([World EXCEPT !.bees = bees']) = "false"

\* C20: once a bee is at the queen's place it stays there through every
\* further takeTurn, deployAnt, removeAnt and boostAnt, gameIsWon keeps
\* returning false, and no turn calls exitBee on the queen's place.
C20_LossAbsorbing == []C20_NoExitAtQueen /\ [][C20_Step]_vars

\* C20 witness: a whole turn in which an ant acted and no bee did has been
\* played with a bee already at the queen's place, and gameIsWon, asked
\* after it, returned false
C20_Witness ==
  /\ ret = Returned("gameIsWon", "false")
  /\ queenHasBees(World)
  /\ logHas(log, "turn")
  /\ logHas(log, "ant")
  /\ ~logHas(log, "bee")

====
